---- MODULE Spec2Model ----
(***************************************************************************)
(* Model of scan.js, the serial Pi node checker: the file system it reads  *)
(* and writes, the driver loop of main, one HTTP probe with its abort      *)
(* timer (fetchWithTimeout), and the classification of checkUrl.           *)
(*                                                                         *)
(* Text is a sequence of atoms (characters, or indivisible fragments such  *)
(* as a host name).  Line splitting and trimming work on the atoms.        *)
(***************************************************************************)
EXTENDS Integers, Sequences, FiniteSets, TLC

VARIABLES files, pc, exitCode, serversRaw, servers, wallets, validList,
          stats, i, j, serverHadValid, result, resp,
          reqs, timers, elapsed, writes,
          log, run, startFiles, prevAppended, prevClean

vars == <<files, pc, exitCode, serversRaw, servers, wallets, validList,
          stats, i, j, serverHadValid, result, resp,
          reqs, timers, elapsed, writes,
          log, run, startFiles, prevAppended, prevClean>>

(***************************************************************************)
(* Bounds of the model.                                                    *)
(***************************************************************************)
\* clock steps modelled for one request
MaxTicks == 3
\* runs of the program over the same directory
MaxRuns == 2

(***************************************************************************)
(* Program constants.                                                      *)
(***************************************************************************)
DEFAULT_PORT == 31401
SERVERS_FILE == "servers.txt"
WALLETS_FILE == "wallets.txt"
TIMEOUT_MS == 7000

VALID_FILE == "valid.txt"
NOVALID_FILE == "novalid.txt"
TIMEOUT_FILE == "timeout.txt"

\* length of one clock step, and the longest wait the model follows
TickMs == TIMEOUT_MS \div 2
MaxElapsed == MaxTicks * TickMs

(***************************************************************************)
(* Text: split(/\r?\n/), trim(), filter(Boolean).                          *)
(***************************************************************************)
LF == "\n"
CR == "\r"
SP == " "
WhiteSpace == {SP, CR, "\t"}

RECURSIVE FirstLF(_, _)
\* index of the first LF of t at or after k, 0 when there is none
FirstLF(t, k) ==
  IF k > Len(t) THEN 0
  ELSE IF t[k] = LF THEN k
  ELSE FirstLF(t, k + 1)

\* the piece before the separator at k: a CR just before the LF belongs
\* to the separator
BeforeBreak(t, k) ==
  IF k > 1 /\ t[k - 1] = CR THEN SubSeq(t, 1, k - 2) ELSE SubSeq(t, 1, k - 1)

RECURSIVE SplitLines(_)
SplitLines(t) ==
  LET k == FirstLF(t, 1) IN
  IF k = 0 THEN <<t>>
  ELSE <<BeforeBreak(t, k)>> \o SplitLines(SubSeq(t, k + 1, Len(t)))

RECURSIVE TrimStart(_)
TrimStart(t) ==
  IF t # <<>> /\ t[1] \in WhiteSpace THEN TrimStart(Tail(t)) ELSE t

RECURSIVE TrimEnd(_)
TrimEnd(t) ==
  IF t # <<>> /\ t[Len(t)] \in WhiteSpace
  THEN TrimEnd(SubSeq(t, 1, Len(t) - 1)) ELSE t

\* the lines are kept as split, without trim()
TrimNothing(t) == t

Trim(t) == TrimEnd(TrimStart(t))

NonEmpty(t) == t # <<>>

\* raw.split(/\r?\n/).map(s => s.trim()).filter(Boolean)
ParseLines(raw) ==
  LET pieces == SplitLines(raw) IN
  SelectSeq([k \in 1..Len(pieces) |-> Trim(pieces[k])], NonEmpty)

\* list.includes(x)
Includes(list, x) == \E k \in 1..Len(list) : list[k] = x

(***************************************************************************)
(* Files.                                                                  *)
(***************************************************************************)
Absent == [exists |-> FALSE, data |-> <<>>]
FileOf(t) == [exists |-> TRUE, data |-> t]

FileNames == {SERVERS_FILE, WALLETS_FILE, VALID_FILE, NOVALID_FILE, TIMEOUT_FILE}

\* fs.writeFile(name, ''): create or truncate
WriteEmpty(fs, name) == [fs EXCEPT ![name] = FileOf(<<>>)]

\* writeFile in the place of appendFile: the file is replaced
AppendToReplacing(fs, name, data) == [fs EXCEPT ![name] = FileOf(data)]

\* fs.appendFile(name, data): create when missing, else add at the end
AppendTo(fs, name, data) ==
  [fs EXCEPT ![name] = FileOf(fs[name].data \o data)]

(***************************************************************************)
(* buildUrl.                                                               *)
(***************************************************************************)
\* encodeURIComponent on one atom: reserved characters are percent-encoded
EncodeAtom(c) ==
  CASE c = SP  -> "%20"
    [] c = ":" -> "%3A"
    [] c = "|" -> "%7C"
    [] c = CR  -> "%0D"
    [] OTHER   -> c

EncodeURIComponent(t) == [k \in 1..Len(t) |-> EncodeAtom(t[k])]

buildUrl(server, wallet) ==
  LET host == IF Includes(server, ":") THEN server
              ELSE server \o <<":", ToString(DEFAULT_PORT)>>
  IN <<"http://">> \o host \o <<"/claimable_balances?claimant=">>
       \o EncodeURIComponent(wallet)

(***************************************************************************)
(* JSON values as JSON.parse returns them, and the JavaScript operations   *)
(* checkUrl applies to them.                                               *)
(***************************************************************************)
JNull == [t |-> "null"]
JUndefined == [t |-> "undefined"]
JStr(s) == [t |-> "str", s |-> s]
JNum(n) == [t |-> "num", n |-> n]
JArr(a) == [t |-> "arr", a |-> a]
JObj(f) == [t |-> "obj", f |-> f]
\* JSON.parse threw SyntaxError
SyntaxError == [t |-> "syntaxerror"]

\* ToBoolean
Truthy(v) ==
  CASE v.t = "null"      -> FALSE
    [] v.t = "undefined" -> FALSE
    [] v.t = "str"       -> v.s # ""
    [] v.t = "num"       -> v.n # 0
    [] OTHER             -> TRUE

\* v.k throws TypeError on null and undefined
GetThrows(v) == v.t \in {"null", "undefined"}

\* v.k for a non-index key k, where it does not throw
Get(v, k) ==
  IF v.t = "obj" /\ k \in DOMAIN v.f THEN v.f[k] ELSE JUndefined

IsArray(v) == v.t = "arr"

\* `${v}` for the values an amount takes here
TemplateString(v) ==
  CASE v.t = "str" -> v.s
    [] v.t = "num" -> ToString(v.n)
    [] v.t = "arr" -> "<array>"
    [] OTHER       -> "[object Object]"

(***************************************************************************)
(* checkUrl: the classification of a response, and of a failure.           *)
(***************************************************************************)
Valid(details) == [status |-> "valid", details |-> details]
NoValid(details) == [status |-> "novalid", details |-> details]
Timeout(details) == [status |-> "timeout", details |-> details]
NoResult == [status |-> "none", details |-> <<>>]

\* res.ok
Ok(status) == status >= 200 /\ status <= 299

\* line 33
ClassifyStatus(status) == NoValid(<<"HTTP ", ToString(status)>>)

\* lines 37-44: the body of the inner try, after JSON.parse returned jv
ClassifyJson(jv) ==
  LET emb == Get(jv, "_embedded")
      recs == Get(emb, "records")
  IN IF Truthy(jv) /\ Truthy(emb) /\ IsArray(recs) /\ Len(recs.a) > 0
     THEN LET r == recs.a[1] IN
          IF GetThrows(r)
          THEN \* r.asset throws TypeError, caught by the catch of line 43
               NoValid(<<"non-json response">>)
          ELSE IF Truthy(Get(r, "asset")) /\ Truthy(Get(r, "amount"))
          THEN Valid(<<"amount=", TemplateString(Get(r, "amount"))>>)
          ELSE NoValid(<<"json but structure mismatch">>)
     ELSE NoValid(<<"json but structure mismatch">>)

\* lines 34-48: a body is the two substring tests on its text and what
\* JSON.parse makes of the text
ClassifyBody(body) ==
  IF body.hasEmbedded /\ body.hasRecords
  THEN IF body.json.t = "syntaxerror"
       THEN NoValid(<<"non-json response">>)
       ELSE ClassifyJson(body.json)
  ELSE NoValid(<<"no _embedded/records in response">>)

\* err.message || String(err): String(err) of an error with an empty
\* message is its name
ErrDetails(err) == IF err.message # "" THEN err.message ELSE err.name

\* lines 49-52
ClassifyError(err) ==
  IF err.name = "AbortError" THEN Timeout(<<"fetch timeout">>)
  ELSE Timeout(<<ErrDetails(err)>>)

\* what controller.abort() makes a pending fetch or body read reject with
AbortError == [name |-> "AbortError", message |-> "This operation was aborted"]

(***************************************************************************)
(* The inputs: the directory a run finds, and what the probed servers do.  *)
(***************************************************************************)
ServersInputs ==
  { Absent,
    FileOf(<<SP, LF, CR, LF>>),
    FileOf(<<"a", LF>>),
    FileOf(<<"a", CR, LF, SP, "b", SP, LF>>),
    FileOf(<<"a", LF, LF, "a">>) }

WalletsInputs ==
  { Absent,
    FileOf(<<LF>>),
    FileOf(<<"w", LF>>),
    FileOf(<<"w", CR, LF, "x">>) }

\* valid.txt, novalid.txt and timeout.txt as found: never written, left
\* empty, left by an earlier run, or edited by hand (no final line feed)
StaleNoValid == FileOf(<<"z", "|", "w", "|", "HTTP ", "500", LF>>)
StaleTimeout == FileOf(<<"z", "|", "fetch timeout", LF>>)

OutputInputs ==
  { <<Absent, Absent, Absent>>,
    <<FileOf(<<>>), FileOf(<<>>), FileOf(<<>>)>>,
    <<FileOf(<<"b", CR, LF>>), StaleNoValid, StaleTimeout>>,
    <<FileOf(<<"c">>), Absent, StaleTimeout>> }

Statuses == {200, 404}

Record(asset, amount) == JObj([asset |-> asset, amount |-> amount])
Page(records) == JObj([_embedded |-> JObj([records |-> records])])
Text(hasE, hasR, json) == [hasEmbedded |-> hasE, hasRecords |-> hasR, json |-> json]

Bodies ==
  { Text(FALSE, FALSE, SyntaxError),
    Text(FALSE, FALSE, JObj([error |-> JStr("not found")])),
    Text(TRUE, TRUE, SyntaxError),
    Text(TRUE, TRUE, JStr("_embedded records")),
    Text(TRUE, FALSE, JObj([_embedded |-> JNull])),
    Text(TRUE, TRUE, JObj([_embedded |-> JNull, records |-> JNum(1)])),
    Text(TRUE, TRUE, Page(JObj([n |-> JNum(0)]))),
    Text(TRUE, TRUE, Page(JArr(<<>>))),
    Text(TRUE, TRUE, Page(JArr(<<Record(JStr("native"), JStr("5"))>>))),
    Text(TRUE, TRUE, Page(JArr(<<Record(JStr("native"), JStr("5")), JNull>>))),
    Text(TRUE, TRUE, Page(JArr(<<JObj([asset |-> JStr("native")])>>))),
    Text(TRUE, TRUE, Page(JArr(<<Record(JStr("native"), JStr(""))>>))),
    Text(TRUE, TRUE, Page(JArr(<<Record(JStr("native"), JNum(0))>>))),
    Text(TRUE, TRUE, Page(JArr(<<JNum(7)>>))),
    Text(TRUE, TRUE, Page(JArr(<<JNull>>))) }

\* rejections of fetch (no connection) and of res.text() (connection lost)
FetchErrors == { [name |-> "TypeError", message |-> "fetch failed"] }
BodyErrors == { [name |-> "TypeError", message |-> "terminated"] }

NoResp == [kind |-> "none", status |-> 0, body |-> Text(FALSE, FALSE, SyntaxError)]

(***************************************************************************)
(* State after the banner of lines 56-58.                                  *)
(***************************************************************************)
ZeroStats == [valid |-> 0, novalid |-> 0, timeout |-> 0]

\* valid.txt is empty or ends with a line feed
Terminated(f) == f.data = <<>> \/ f.data[Len(f.data)] = LF

Fresh ==
  /\ pc = "readServers"
  /\ exitCode = -1
  /\ serversRaw = <<>>
  /\ servers = <<>>
  /\ wallets = <<>>
  /\ validList = <<>>
  /\ stats = ZeroStats
  /\ i = 0
  /\ j = 0
  /\ serverHadValid = FALSE
  /\ result = NoResult
  /\ resp = NoResp
  /\ reqs = {}
  /\ timers = {}
  /\ elapsed = 0
  /\ writes = {}
  /\ log = <<>>

Init ==
  /\ \E s \in ServersInputs, w \in WalletsInputs, o \in OutputInputs :
       files = [n \in FileNames |->
                  CASE n = SERVERS_FILE -> s
                    [] n = WALLETS_FILE -> w
                    [] n = VALID_FILE   -> o[1]
                    [] n = NOVALID_FILE -> o[2]
                    [] OTHER            -> o[3]]
  /\ Fresh
  /\ run = 1
  /\ startFiles = files
  /\ prevAppended = {}
  /\ prevClean = TRUE

(***************************************************************************)
(* Helpers of the driver.                                                  *)
(***************************************************************************)
Max(a, b) == IF a > b THEN a ELSE b

\* the server found valid is not remembered
PushNothing(list, x) == list

\* validList.push(server)
Push(list, x) == Append(list, x)

\* a timeout is counted as a novalid as well
BumpTimeoutTwice(st, status) ==
  CASE status = "valid"   -> [st EXCEPT !.valid = @ + 1]
    [] status = "novalid" -> [st EXCEPT !.novalid = @ + 1]
    [] OTHER              -> [st EXCEPT !.timeout = @ + 1, !.novalid = @ + 1]

\* stats.valid++, stats.novalid++, stats.timeout++
Bump(st, status) ==
  CASE status = "valid"   -> [st EXCEPT !.valid = @ + 1]
    [] status = "novalid" -> [st EXCEPT !.novalid = @ + 1]
    [] OTHER              -> [st EXCEPT !.timeout = @ + 1]

\* the server is appended without its line feed
ValidLineUnterminated(server) == server

\* the lines of lines 121, 128 and 132
ValidLine(server) == server \o <<LF>>
NoValidLine(server, wallet, details) ==
  server \o <<"|">> \o wallet \o <<"|">> \o details \o <<LF>>
TimeoutLine(server, details) == server \o <<"|">> \o details \o <<LF>>

\* the file and the line a classified probe is recorded with
OutFile(status) ==
  CASE status = "valid"   -> VALID_FILE
    [] status = "novalid" -> NOVALID_FILE
    [] OTHER              -> TIMEOUT_FILE

OutLine(status, server, wallet, details) ==
  CASE status = "valid"   -> ValidLine(server)
    [] status = "novalid" -> NoValidLine(server, wallet, details)
    [] OTHER              -> TimeoutLine(server, details)

\* setTimeout(() => controller.abort(), timeoutMs)
SetTimeout(ts, id, ms) == ts \cup {[ctl |-> id, remaining |-> ms]}

\* the timer is left armed
ClearTimeoutForgotten(ts, id) == ts

\* clearTimeout(id)
ClearTimeout(ts, id) == {t \in ts : t.ctl # id}

\* process.exit(code)
Exit(code) ==
  /\ pc' = "exited"
  /\ exitCode' = code

\* main().catch: an uncaught rejection ends the process with code 1
Crash ==
  /\ pc' = "crashed"
  /\ exitCode' = 1

\* the request the driver is suspended on
Current(r) == r.id = Len(log)

\* checkUrl returns: the driver resumes at line 119 with the result
Return(r, res) ==
  /\ reqs' = reqs \ {r}
  /\ result' = res
  /\ log' = [log EXCEPT ![r.id].status = res.status, ![r.id].details = res.details]
  /\ elapsed' = 0
  /\ pc' = IF Current(r) THEN "write" ELSE pc

(***************************************************************************)
(* main, lines 60-98: setup.                                               *)
(***************************************************************************)
ReadServers ==
  /\ pc = "readServers"
  /\ IF files[SERVERS_FILE].exists
     THEN /\ serversRaw' = files[SERVERS_FILE].data
          /\ pc' = "readWallets"
          /\ UNCHANGED exitCode
     ELSE /\ Exit(1)
          /\ UNCHANGED serversRaw
  /\ UNCHANGED <<files, servers, wallets, validList, stats, i, j, serverHadValid,
                 result, resp, reqs, timers, elapsed, writes, log, run,
                 startFiles, prevAppended, prevClean>>

\* lines 68-81: read wallets.txt, parse both lists, refuse empty lists
ReadWallets ==
  /\ pc = "readWallets"
  /\ IF ~files[WALLETS_FILE].exists
     THEN /\ Exit(1)
          /\ UNCHANGED <<servers, wallets>>
     ELSE /\ servers' = ParseLines(serversRaw)
          /\ wallets' = ParseLines(files[WALLETS_FILE].data)
          /\ IF servers' = <<>> \/ wallets' = <<>>
             THEN Exit(1)
             ELSE pc' = "loadValid" /\ UNCHANGED exitCode
  /\ UNCHANGED <<files, serversRaw, validList, stats, i, j, serverHadValid,
                 result, resp, reqs, timers, elapsed, writes, log, run,
                 startFiles, prevAppended, prevClean>>

\* lines 83-90
LoadValid ==
  /\ pc = "loadValid"
  /\ validList' = IF files[VALID_FILE].exists
                  THEN ParseLines(files[VALID_FILE].data)
                  ELSE <<>>
  /\ pc' = "truncate"
  /\ UNCHANGED <<files, exitCode, serversRaw, servers, wallets, stats, i, j,
                 serverHadValid, result, resp, reqs, timers, elapsed, writes,
                 log, run, startFiles, prevAppended, prevClean>>

\* startFiles remembers the directory as the run found it; once the run
\* has reached line 93 only its valid.txt is still of interest
Forget(fs) == [fs EXCEPT ![NOVALID_FILE] = Absent, ![TIMEOUT_FILE] = Absent]

\* lines 92-98
Truncate ==
  /\ pc = "truncate"
  /\ files' = WriteEmpty(WriteEmpty(files, NOVALID_FILE), TIMEOUT_FILE)
  /\ stats' = ZeroStats
  /\ i' = 0
  /\ pc' = "server"
  /\ startFiles' = Forget(startFiles)
  /\ UNCHANGED <<exitCode, serversRaw, servers, wallets, validList, j,
                 serverHadValid, result, resp, reqs, timers, elapsed, writes,
                 log, run, prevAppended, prevClean>>

\* one of the two writeFile calls rejects: Promise.all rejects and main
\* ends through its catch, the other write done or not
TruncateFail ==
  /\ pc = "truncate"
  /\ files' \in {files, WriteEmpty(files, NOVALID_FILE), WriteEmpty(files, TIMEOUT_FILE)}
  /\ Crash
  /\ startFiles' = Forget(startFiles)
  /\ UNCHANGED <<serversRaw, servers, wallets, validList, stats, i, j,
                 serverHadValid, result, resp, reqs, timers, elapsed, writes,
                 log, run, prevAppended, prevClean>>

(***************************************************************************)
(* main, lines 100-147: the loop over servers and wallets.                 *)
(***************************************************************************)
\* the skip branch without its continue: the server is scanned all the same
SkipServerFallingThrough ==
  /\ pc = "server"
  /\ i < Len(servers)
  /\ Includes(validList, servers[i + 1])
  /\ serverHadValid' = FALSE
  /\ j' = 0
  /\ pc' = "wallet"
  /\ UNCHANGED <<files, exitCode, serversRaw, servers, wallets, validList,
                 stats, i, result, resp, reqs, timers, elapsed, writes, log,
                 run, startFiles, prevAppended, prevClean>>

\* lines 105-108
SkipServer ==
  /\ pc = "server"
  /\ i < Len(servers)
  /\ Includes(validList, servers[i + 1])
  /\ i' = i + 1
  /\ UNCHANGED <<files, pc, exitCode, serversRaw, servers, wallets, validList,
                 stats, j, serverHadValid, result, resp, reqs, timers, elapsed,
                 writes, log, run, startFiles, prevAppended, prevClean>>

\* lines 110-112
BeginServer ==
  /\ pc = "server"
  /\ i < Len(servers)
  /\ ~Includes(validList, servers[i + 1])
  /\ serverHadValid' = FALSE
  /\ j' = 0
  /\ pc' = "wallet"
  /\ UNCHANGED <<files, exitCode, serversRaw, servers, wallets, validList,
                 stats, i, result, resp, reqs, timers, elapsed, writes, log,
                 run, startFiles, prevAppended, prevClean>>

\* lines 112-117, 30-32, 17-21: build the URL, arm the abort timer, fetch
IssueProbe ==
  /\ pc = "wallet"
  /\ ~serverHadValid
  /\ j < Len(wallets)
  /\ LET server == servers[i + 1]
         wallet == wallets[j + 1]
         id == Len(log) + 1
     IN /\ reqs' = reqs \cup {[id |-> id, url |-> buildUrl(server, wallet), phase |-> "fetch"]}
        /\ timers' = SetTimeout(timers, id, TIMEOUT_MS)
        /\ log' = Append(log, [server |-> server, wallet |-> wallet,
                               status |-> "pending", details |-> <<>>,
                               written |-> FALSE])
  /\ elapsed' = 0
  /\ pc' = "await"
  /\ UNCHANGED <<files, exitCode, serversRaw, servers, wallets, validList,
                 stats, i, j, serverHadValid, result, resp, writes, run,
                 startFiles, prevAppended, prevClean>>

\* lines 135-142: the wallet loop ends, by break or by exhaustion
EndServer ==
  /\ pc = "wallet"
  /\ serverHadValid \/ j >= Len(wallets)
  /\ i' = i + 1
  /\ pc' = "server"
  /\ UNCHANGED <<files, exitCode, serversRaw, servers, wallets, validList,
                 stats, j, serverHadValid, result, resp, reqs, timers, elapsed,
                 writes, log, run, startFiles, prevAppended, prevClean>>

\* lines 144-147, then the process ends normally
Finish ==
  /\ pc = "server"
  /\ i >= Len(servers)
  /\ pc' = "done"
  /\ exitCode' = 0
  /\ UNCHANGED <<files, serversRaw, servers, wallets, validList, stats, i, j,
                 serverHadValid, result, resp, reqs, timers, elapsed, writes,
                 log, run, startFiles, prevAppended, prevClean>>

(***************************************************************************)
(* fetchWithTimeout and checkUrl while the driver is suspended at line 117:*)
(* the clock, the abort timer, and what the probed server does.            *)
(***************************************************************************)
Response(kind, status, body) == [kind |-> kind, status |-> status, body |-> body]

\* time passes; a timer that is due fires before more time passes
Tick ==
  /\ reqs # {}
  /\ elapsed < MaxElapsed
  /\ \A t \in timers : t.remaining > 0
  /\ elapsed' = elapsed + TickMs
  /\ timers' = {[t EXCEPT !.remaining = Max(0, @ - TickMs)] : t \in timers}
  /\ UNCHANGED <<files, pc, exitCode, serversRaw, servers, wallets, validList,
                 stats, i, j, serverHadValid, result, resp, reqs, writes, log,
                 run, startFiles, prevAppended, prevClean>>

\* line 19: the timer callback aborts its controller; a request pending on
\* that controller rejects with AbortError (lines 24-26, then 49-50)
TimerFire ==
  \E t \in timers :
    /\ t.remaining = 0
    /\ IF \E r \in reqs : r.id = t.ctl
       THEN LET r == CHOOSE q \in reqs : q.id = t.ctl IN
            /\ timers' = ClearTimeout(timers \ {t}, r.id)
            /\ resp' = Response("abort", 0, NoResp.body)
            /\ Return(r, ClassifyError(AbortError))
       ELSE /\ timers' = timers \ {t}
            /\ UNCHANGED <<resp, reqs, result, log, pc, elapsed>>
    /\ UNCHANGED <<files, exitCode, serversRaw, servers, wallets, validList,
                   stats, i, j, serverHadValid, writes, run,
                   startFiles, prevAppended, prevClean>>

\* lines 21-23 and 33-34: the response head arrives, fetch resolves, the
\* timer is cleared; a non-success status is classified at once, else the
\* body is awaited
HeadersArrive ==
  \E r \in reqs, status \in Statuses :
    /\ r.phase = "fetch"
    /\ timers' = ClearTimeout(timers, r.id)
    /\ IF Ok(status)
       THEN /\ reqs' = (reqs \ {r}) \cup {[r EXCEPT !.phase = "body"]}
            /\ resp' = Response("head", status, NoResp.body)
            /\ UNCHANGED <<result, log, pc, elapsed>>
       ELSE /\ resp' = Response("status", status, NoResp.body)
            /\ Return(r, ClassifyStatus(status))
    /\ UNCHANGED <<files, exitCode, serversRaw, servers, wallets, validList,
                   stats, i, j, serverHadValid, writes, run,
                   startFiles, prevAppended, prevClean>>

\* lines 24-26 and 49-52: fetch rejects with a network failure
FetchFails ==
  \E r \in reqs, err \in FetchErrors :
    /\ r.phase = "fetch"
    /\ timers' = ClearTimeout(timers, r.id)
    /\ resp' = Response("error", 0, NoResp.body)
    /\ Return(r, ClassifyError(err))
    /\ UNCHANGED <<files, exitCode, serversRaw, servers, wallets, validList,
                   stats, i, j, serverHadValid, writes, run,
                   startFiles, prevAppended, prevClean>>

\* lines 34-48: res.text() resolves with the whole body
BodyArrives ==
  \E r \in reqs, body \in Bodies :
    /\ r.phase = "body"
    /\ resp' = Response("body", resp.status, body)
    /\ Return(r, ClassifyBody(body))
    /\ UNCHANGED <<files, exitCode, serversRaw, servers, wallets, validList,
                   stats, i, j, serverHadValid, timers, writes, run,
                   startFiles, prevAppended, prevClean>>

\* lines 34 and 49-52: res.text() rejects, the connection broke mid-body
BodyFails ==
  \E r \in reqs, err \in BodyErrors :
    /\ r.phase = "body"
    /\ resp' = Response("error", resp.status, NoResp.body)
    /\ Return(r, ClassifyError(err))
    /\ UNCHANGED <<files, exitCode, serversRaw, servers, wallets, validList,
                   stats, i, j, serverHadValid, timers, writes, run,
                   startFiles, prevAppended, prevClean>>

(***************************************************************************)
(* main, lines 119-134: one append per result, awaited, then the counter.  *)
(***************************************************************************)
\* fs.appendFile is called and the driver is suspended on it
StartAppend ==
  /\ pc = "write"
  /\ writes' = writes \cup {[id |-> Len(log), file |-> OutFile(result.status),
                             data |-> OutLine(result.status, servers[i + 1],
                                              wallets[j + 1], result.details)]}
  /\ resp' = NoResp
  /\ pc' = "appending"
  /\ UNCHANGED <<files, exitCode, serversRaw, servers, wallets, validList,
                 stats, i, j, serverHadValid, result, reqs, timers,
                 elapsed, log, run, startFiles, prevAppended, prevClean>>

\* the append completes and the driver resumes after the await
AppendDone ==
  \E w \in writes :
    /\ pc = "appending"
    /\ files' = AppendTo(files, w.file, w.data)
    /\ writes' = writes \ {w}
    /\ log' = [log EXCEPT ![w.id].written = TRUE]
    /\ stats' = Bump(stats, result.status)
    /\ IF result.status = "valid"
       THEN /\ validList' = Push(validList, servers[i + 1])
            /\ serverHadValid' = TRUE
            /\ UNCHANGED j
       ELSE /\ j' = j + 1
            /\ UNCHANGED <<validList, serverHadValid>>
    /\ result' = NoResult
    /\ pc' = "wallet"
    /\ UNCHANGED <<exitCode, serversRaw, servers, wallets, i, resp, reqs, timers, elapsed,
                   run, startFiles, prevAppended, prevClean>>

\* the append rejects (the file cannot be opened): main ends through its
\* catch with nothing written
AppendFail ==
  \E w \in writes :
    /\ pc = "appending"
    /\ writes' = writes \ {w}
    /\ Crash
    /\ UNCHANGED <<files, serversRaw, servers, wallets, validList, stats, i, j,
                   serverHadValid, result, resp, reqs, timers, elapsed, log,
                   run, startFiles, prevAppended, prevClean>>

(***************************************************************************)
(* The program is started again in the same directory.                     *)
(***************************************************************************)
\* servers this run appended to valid.txt
Appended == {log[k].server : k \in {n \in 1..Len(log) :
                                     log[n].status = "valid" /\ log[n].written}}

Rerun ==
  /\ pc \in {"done", "exited", "crashed"}
  /\ run < MaxRuns
  /\ run' = run + 1
  /\ startFiles' = files
  /\ prevAppended' = Appended
  /\ prevClean' = Terminated(startFiles[VALID_FILE])
  /\ pc' = "readServers"
  /\ exitCode' = -1
  /\ serversRaw' = <<>>
  /\ servers' = <<>>
  /\ wallets' = <<>>
  /\ validList' = <<>>
  /\ stats' = ZeroStats
  /\ i' = 0
  /\ j' = 0
  /\ serverHadValid' = FALSE
  /\ result' = NoResult
  /\ resp' = NoResp
  /\ reqs' = {}
  /\ timers' = {}
  /\ elapsed' = 0
  /\ writes' = {}
  /\ log' = <<>>
  /\ UNCHANGED files

Next ==
  \/ ReadServers
  \/ ReadWallets
  \/ LoadValid
  \/ Truncate
  \/ TruncateFail
  \/ SkipServer
  \/ BeginServer
  \/ IssueProbe
  \/ EndServer
  \/ Finish
  \/ Tick
  \/ TimerFire
  \/ HeadersArrive
  \/ FetchFails
  \/ BodyArrives
  \/ BodyFails
  \/ StartAppend
  \/ AppendDone
  \/ AppendFail
  \/ Rerun

Spec == Init /\ [][Next]_vars

\* the event loop runs every step of the program that is ready, the clock
\* advances and due timers fire; nothing obliges a remote server to answer
\* or a file system error to happen
Program ==
  \/ ReadServers
  \/ ReadWallets
  \/ LoadValid
  \/ Truncate
  \/ SkipServer
  \/ BeginServer
  \/ IssueProbe
  \/ EndServer
  \/ Finish
  \/ StartAppend
  \/ AppendDone

FairSpec ==
  /\ Spec
  /\ WF_vars(Program)
  /\ WF_vars(Tick)
  /\ WF_vars(TimerFire)

(***************************************************************************)
(* Properties.                                                             *)
(***************************************************************************)
\* the line a classified probe is to be recorded with
ExpectedLine(e) ==
  CASE e.status = "valid"   -> e.server \o <<LF>>
    [] e.status = "novalid" -> e.server \o <<"|">> \o e.wallet \o <<"|">> \o e.details \o <<LF>>
    [] OTHER                -> e.server \o <<"|">> \o e.details \o <<LF>>

RECURSIVE Recorded(_, _)
\* the lines of the recorded probes of class st, in the order of issue
Recorded(l, st) ==
  IF l = <<>> THEN <<>>
  ELSE (IF Head(l).status = st /\ Head(l).written THEN ExpectedLine(Head(l)) ELSE <<>>)
         \o Recorded(Tail(l), st)

Count(l, st) == Cardinality({k \in 1..Len(l) : l[k].status = st})

Total(st) == st.valid + st.novalid + st.timeout

InList(list, x) == \E k \in 1..Len(list) : list[k] = x

\* the run is past line 96: it has emptied novalid.txt and timeout.txt
PastTruncate ==
  \/ pc \in {"server", "wallet", "await", "write", "appending", "done"}
  \/ pc = "crashed" /\ log # <<>>

\* the run is past line 90: it has loaded valid.txt
PastLoad == pc = "truncate" \/ pc = "crashed" \/ PastTruncate

\* C1: entering a server that is in validList changes nothing but the
\* server index: no probe is issued, no file is written, the counters and
\* validList stay as they are, and the driver is at the next server.
C1_SkipRule ==
  [][ (pc = "server" /\ i < Len(servers) /\ InList(validList, servers[i + 1]))
      => /\ i' = i + 1
         /\ pc' = "server"
         /\ files' = files
         /\ stats' = stats
         /\ validList' = validList
         /\ log' = log
         /\ reqs' = reqs
         /\ writes' = writes ]_vars

\* a server found valid earlier in the run stands twice in servers.txt and
\* its second occurrence has been passed with one probe issued in all
C1_Witness ==
  /\ pc = "server"
  /\ i = 2
  /\ servers[1] = servers[2]
  /\ Len(log) = 1
  /\ log[1].status = "valid"
  /\ stats = [valid |-> 1, novalid |-> 0, timeout |-> 0]

\* C2: no probe of a server follows a probe of that server classified
\* valid, and every probe is for the first wallet or for the wallet after
\* the one of the probe before it, of the same server, that was not valid.
C2_EarlyStop ==
  /\ \A k, l \in 1..Len(log) :
       (k < l /\ log[k].status = "valid") => log[l].server # log[k].server
  /\ \A k \in 1..Len(log) :
       \/ log[k].wallet = wallets[1]
       \/ /\ k > 1
          /\ log[k - 1].server = log[k].server
          /\ log[k - 1].status \in {"novalid", "timeout"}
          /\ \E m \in 1..(Len(wallets) - 1) :
               log[k - 1].wallet = wallets[m] /\ log[k].wallet = wallets[m + 1]

\* the server stands twice, there are two wallets, the first wallet was
\* valid, and the run ended with that one probe
C2_Witness ==
  /\ pc = "done"
  /\ Len(servers) = 2
  /\ servers[1] = servers[2]
  /\ Len(wallets) = 2
  /\ Len(log) = 1
  /\ log[1].status = "valid"
  /\ log[1].wallet = wallets[1]

C6_CounterSum ==
  /\ pc \in {"server", "wallet", "done"}
     => /\ Total(stats) = Len(log)
        /\ stats.valid = Count(log, "valid")
        /\ stats.novalid = Count(log, "novalid")
        /\ stats.timeout = Count(log, "timeout")
  /\ pc \in {"await", "write", "appending"} => Total(stats) = Len(log) - 1

\* a run ended with one probe of each class
C6_Witness ==
  /\ pc = "done"
  /\ stats = [valid |-> 1, novalid |-> 1, timeout |-> 1]
  /\ Len(log) = 3

\* C7: valid.txt is what it was at run start followed by the lines of the
\* valid probes recorded so far, also after a failure; once emptied,
\* novalid.txt and timeout.txt are the lines of this run's recorded probes.
C7_FileLifecycle ==
  /\ files[VALID_FILE].data = startFiles[VALID_FILE].data \o Recorded(log, "valid")
  /\ PastTruncate
     => /\ files[NOVALID_FILE].data = Recorded(log, "novalid")
        /\ files[TIMEOUT_FILE].data = Recorded(log, "timeout")

\* a run that found lines in all three files has recorded a valid, a
\* novalid and a timeout probe, and then failed
C7_Witness ==
  /\ pc = "crashed"
  /\ startFiles[VALID_FILE].data # <<>>
  /\ run = 1
  /\ Count(log, "valid") = 1
  /\ Recorded(log, "valid") # <<>>
  /\ Recorded(log, "novalid") # <<>>
  /\ Recorded(log, "timeout") # <<>>

\* a required file with no line that survives trimming
Unusable(f) ==
  \/ ~f.exists
  \/ \A k \in 1..Len(f.data) : f.data[k] \in WhiteSpace \cup {LF}

\* C8: with servers.txt or wallets.txt missing or blank the run never gets
\* past reading them, ends with code 1, issues no probe and leaves every
\* file as it found it; a missing valid.txt gives an empty validList and
\* does not end the run.
C8_FatalSetup ==
  /\ (Unusable(files[SERVERS_FILE]) \/ Unusable(files[WALLETS_FILE]))
     => /\ pc \in {"readServers", "readWallets", "exited"}
        /\ pc = "exited" => exitCode = 1
        /\ log = <<>>
        /\ reqs = {}
        /\ writes = {}
        /\ files = startFiles
  /\ (pc = "truncate" /\ ~files[VALID_FILE].exists)
     => /\ validList = <<>>
        /\ exitCode = -1

\* servers.txt exists but is blank, the run has ended, and the output
\* files of an earlier run are still there
C8_Witness ==
  /\ pc = "exited"
  /\ exitCode = 1
  /\ files[SERVERS_FILE].exists
  /\ Unusable(files[SERVERS_FILE])
  /\ files[NOVALID_FILE].data # <<>>
  /\ files[TIMEOUT_FILE].data # <<>>

\* C10: at most one request and one append are in progress, never both; a
\* probe is issued only when every earlier probe is recorded; the lines of
\* each file are in the order of issue; an armed abort timer belongs to the
\* request in progress, so none is left to fire during a later request.
C10_Serial ==
  /\ Cardinality(reqs) <= 1
  /\ Cardinality(writes) <= 1
  /\ reqs = {} \/ writes = {}
  /\ reqs # {}
     => /\ pc = "await"
        /\ \A r \in reqs : r.id = Len(log)
        /\ \A k \in 1..(Len(log) - 1) : log[k].written
  /\ writes # {} => \A k \in 1..(Len(log) - 1) : log[k].written
  /\ \A t \in timers : \E r \in reqs : r.id = t.ctl
  /\ PastTruncate
     => \A st \in {"valid", "novalid", "timeout"} :
          \E n \in 0..Len(files[OutFile(st)].data) :
            SubSeq(files[OutFile(st)].data, n + 1, Len(files[OutFile(st)].data))
              = Recorded(log, st)

\* a third probe is in flight with its timer armed, the two before it
\* recorded in novalid.txt
C10_Witness ==
  /\ pc = "await"
  /\ Len(log) = 3
  /\ timers # {}
  /\ Count(log, "novalid") = 2
  /\ files[NOVALID_FILE].data = Recorded(log, "novalid")
  /\ Recorded(log, "novalid") # <<>>

\* C4: a request is never still in progress more than TIMEOUT_MS after it
\* was issued, whether it waits for the response head or for the body.
C4_AbortedAtTimeout ==
  \A r \in reqs : elapsed <= TIMEOUT_MS

\* the first record of a page, when the body is a page of records
HasRecord(jv) ==
  /\ jv.t = "obj"
  /\ "_embedded" \in DOMAIN jv.f
  /\ jv.f["_embedded"].t = "obj"
  /\ "records" \in DOMAIN jv.f["_embedded"].f
  /\ jv.f["_embedded"].f["records"].t = "arr"
  /\ jv.f["_embedded"].f["records"].a # <<>>

FirstRecord(jv) == jv.f["_embedded"].f["records"].a[1]

\* C5: a success response whose body parses as JSON is classified valid,
\* with the amount of the first record, exactly when the first record of
\* its records has an asset and an amount field, and novalid with the
\* structure mismatch detail otherwise.
C5_JsonClassification ==
  (pc = "write" /\ resp.kind = "body" /\ Ok(resp.status)
     /\ resp.body.json.t # "syntaxerror")
  => LET jv == resp.body.json IN
     IF /\ HasRecord(jv)
        /\ FirstRecord(jv).t = "obj"
        /\ {"asset", "amount"} \subseteq DOMAIN FirstRecord(jv).f
     THEN /\ result.status = "valid"
          /\ result.details = <<"amount=", TemplateString(FirstRecord(jv).f["amount"])>>
     ELSE result = [status |-> "novalid", details |-> <<"json but structure mismatch">>]

\* C9: a run never issues more probes than servers times wallets, and a
\* run that is past its setup ends, normally or on a failed file write.
C9_RunTerminates ==
  /\ [](Len(log) <= Len(servers) * Len(wallets))
  /\ (pc = "server") ~> (pc \in {"done", "crashed"})

====
